---- MODULE Spec2Model ----
(***************************************************************************)
(* xT - publish/subscribe task dispatcher (src/xT.js).                     *)
(*                                                                         *)
(* The model follows the class xT: the static core registry (#queue), the  *)
(* default filter, the sort comparator, #on, #emit, the static on / emit,  *)
(* the constructor of named instances and the Proxy get trap.  One action  *)
(* is one call made by a client of the class; the callbacks that a call    *)
(* runs (feature tasks included) are run inside that action.               *)
(***************************************************************************)
EXTENDS Integers, Sequences, FiniteSets, TLC

VARIABLES
    queue,      \* xT.#queue: the core registry, a sequence of task objects
    instances,  \* xT.#instances: name -> the proxied feature mapping (entries in key order)
    iq,         \* name -> the instance field `queue` of the object that was kept
    nextId,     \* identity of the next task object that #on allocates
    engine,     \* how the build's Array.prototype.sort places tasks the comparator cannot tell apart
    op,         \* the last call made by the client
    log,        \* the callback invocations of the last call, in invocation order
    ret,        \* the value the last call returned
    err         \* the error the last call raised ("" when it returned)

vars == <<queue, instances, iq, nextId, engine, op, log, ret, err>>

-----------------------------------------------------------------------------
(* Bounds of the model.                                                    *)

\* tasks a client registers with the static on, where only the core registry is used
MaxTasks == 3

\* tasks a client registers (static on, or on of an instance), where instances are used
MaxInstanceTasks == 2

\* tasks a client registers with the static on, where callbacks raise, register and emit
MaxDispatchTasks == 3

\* tasks a client registers, where instances are constructed with features named as the built-ins
MaxFeatureTasks == 2

\* tasks a client registers, where two instances and the core registry share a topic
MaxPeerTasks == 3

-----------------------------------------------------------------------------
(* JavaScript values: a type tag and a payload.                            *)

Undef == [t |-> "undefined", v |-> ""]
Null == [t |-> "null", v |-> ""]
Num(n) == [t |-> "number", v |-> n]
Str(s) == [t |-> "string", v |-> s]
Obj(o) == [t |-> "object", v |-> o]
Arr(q) == [t |-> "array", v |-> q]
Fn(cb) == [t |-> "function", v |-> cb]
TaskV(task) == [t |-> "task", v |-> task]

\* the array that is the instance field `queue` of instance `name`: whoever
\* holds it reads and changes the local collection itself
LocalQueue(name) == [t |-> "array", of |-> name]

\* ToBoolean: the test of `result ? ..`, `ctx ? ..`, `task.ctx ? ..`
Truthy(x) ==
    CASE x.t \in {"undefined", "null"} -> FALSE
      [] x.t = "number" -> x.v # 0
      [] x.t = "string" -> x.v # ""
      [] OTHER -> TRUE

\* `x instanceof Object`: objects, arrays and functions, never a primitive
InstanceofObject(x) == x.t \in {"object", "array", "function", "task"}

\* `a == b` on the values the model passes as topics (no numeric strings among them)
LooseEq(a, b) ==
    \/ a = b
    \/ a.t \in {"undefined", "null"} /\ b.t \in {"undefined", "null"}

\* obj[key], undefined when the object has no such property
Get(obj, key) == IF key \in DOMAIN obj THEN obj[key] ELSE Undef

\* { ...base, ...over }
Spread(base, over) ==
    [k \in (DOMAIN base) \cup (DOMAIN over) |->
        IF k \in DOMAIN over THEN over[k] ELSE base[k]]

-----------------------------------------------------------------------------
(* Callbacks.  A client callback is named and returns a fixed value; the   *)
(* features of an instance are closures over the instance name.            *)

User(f) == [k |-> "user", v |-> f]
FilterCb == [k |-> "#filter", v |-> ""]
WildcardCb == [k |-> "wildcard", v |-> ""]
QueueCb(name) == [k |-> "queue", v |-> name]
OnCb(name) == [k |-> "on", v |-> name]
EmitCb(name) == [k |-> "emit", v |-> name]

\* (filterQueue, topic) => filterQueue: a filter that selects every task and
\* answers the array it was given
PassCb == [k |-> "pass", v |-> ""]

\* client callbacks that do more than return a value:
\* () => { throw new Error() }
ThrowCb == [k |-> "throw", v |-> ""]

\* () => { xT.on(topic, cbN, {sort: 1}) }: registers a task while an emit runs
RegisterCb(topic) == [k |-> "register", v |-> topic]

\* () => xT.emit(topic): emits while an emit runs
ReenterCb(topic) == [k |-> "reenter", v |-> topic]

UserRet(f) ==
    CASE f = "cbA" -> Str("A")
      [] f = "cbB" -> Str("B")
      [] f = "cbZ" -> Num(0)
      [] f = "cbN" -> Str("N")
      [] OTHER -> Undef

\* `$${name}:${prop}`
FeatureTopic(name, prop) == "$" \o name \o ":" \o prop

-----------------------------------------------------------------------------
(* The heap a call works on, and what a call yields.                       *)

World == [queue |-> queue, iq |-> iq, nextId |-> nextId, log |-> log]

Result(w, r, e) == [w |-> w, ret |-> r, err |-> e]

\* the elements of an array, as the heap has them
Elems(w, a) == IF "of" \in DOMAIN a THEN w.iq[a.of] ELSE a.v

\* static #filter
filter(filterQueue, topic) ==
    SelectSeq(filterQueue, LAMBDA task: LooseEq(task.topic, topic))

sortDescending(taskA, taskB) == IF taskA.sort > taskB.sort THEN -1 ELSE 1

\* static #sortTasksByPriority
sortTasksByPriority(taskA, taskB) == IF taskA.sort < taskB.sort THEN -1 ELSE 1

InsertAt(s, i, x) == SubSeq(s, 1, i - 1) \o <<x>> \o SubSeq(s, i, Len(s))

\* Array.prototype.sort with a comparator that never answers 0.  Tasks with
\* different sort values are ordered by it; for tasks with equal sort values
\* the comparator is inconsistent and the language leaves their order to the
\* build: an insertion that asks compare(item, placed) keeps them in place,
\* one that asks compare(placed, item) reverses them.
RECURSIVE KeepPos(_, _, _)
KeepPos(placed, item, i) ==
    IF i > Len(placed) \/ sortTasksByPriority(item, placed[i]) < 0 THEN i
    ELSE KeepPos(placed, item, i + 1)

RECURSIVE ReversePos(_, _, _)
ReversePos(placed, item, j) ==
    IF j = 0 \/ sortTasksByPriority(placed[j], item) <= 0 THEN j + 1
    ELSE ReversePos(placed, item, j - 1)

RECURSIVE SortFrom(_, _, _, _)
SortFrom(placed, arr, i, eng) ==
    IF i > Len(arr) THEN placed
    ELSE LET pos == IF eng = "keep" THEN KeepPos(placed, arr[i], 1)
                    ELSE ReversePos(placed, arr[i], Len(placed))
         IN SortFrom(InsertAt(placed, pos, arr[i]), arr, i + 1, eng)

sort(arr, eng) == SortFrom(<<>>, arr, 1, eng)

onDefaultsLast(w, target, topic, cb, opts) ==
    LET o == IF opts.t = "undefined" THEN <<>> ELSE opts.v
        task == Spread([id |-> w.nextId],
                       Spread(o, [topic |-> topic, cb |-> cb, sort |-> 0, stop |-> 0, once |-> 0]))
        w1 == IF target = ""
              THEN [w EXCEPT !.queue = Append(@, task), !.nextId = @ + 1]
              ELSE [w EXCEPT !.iq[target] = Append(@, task), !.nextId = @ + 1]
    IN Result(w1, TaskV(task), "")

onCore(w, target, topic, cb, opts) ==
    LET o == IF opts.t = "undefined" THEN <<>> ELSE opts.v
        task == Spread([id |-> w.nextId],
                       Spread([topic |-> topic, cb |-> cb, sort |-> 0, stop |-> 0, once |-> 0], o))
    IN Result([w EXCEPT !.queue = Append(@, task), !.nextId = @ + 1], TaskV(task), "")

\* static #on; target "" is the core registry, a name that instance's queue
on(w, target, topic, cb, opts) ==
    LET o == IF opts.t = "undefined" THEN <<>> ELSE opts.v
        task == Spread([id |-> w.nextId],
                       Spread([topic |-> topic, cb |-> cb, sort |-> 0, stop |-> 0, once |-> 0], o))
        w1 == IF target = ""
              THEN [w EXCEPT !.queue = Append(@, task), !.nextId = @ + 1]
              ELSE [w EXCEPT !.iq[target] = Append(@, task), !.nextId = @ + 1]
    IN Result(w1, TaskV(task), "")

\* removeTask(task): the identifier is bound nowhere in the file, so reaching
\* the call raises ReferenceError and the collection is left as it is
removeTask(w, task) == Result(w, Undef, "ReferenceError")

-----------------------------------------------------------------------------
(* Running callbacks.                                                      *)

Arg(args, i) == IF i <= Len(args) THEN args[i] ELSE Undef

Rest(args, n) == IF n >= Len(args) THEN <<>> ELSE SubSeq(args, n + 1, Len(args))

\* str.startsWith(prefix)
StartsWith(str, prefix) ==
    Len(prefix) <= Len(str) /\ SubSeq(str, 1, Len(prefix)) = prefix

\* the wildcard filter of the README: a topic ending in '*' selects by
\* prefix, any other topic as the default filter does
wildcardFilter(filterQueue, topic) ==
    IF topic.t = "string" /\ Len(topic.v) > 0
       /\ SubSeq(topic.v, Len(topic.v), Len(topic.v)) = "*"
    THEN SelectSeq(filterQueue, LAMBDA task:
            StartsWith(task.topic.v, SubSeq(topic.v, 1, Len(topic.v) - 1)))
    ELSE SelectSeq(filterQueue, LAMBDA task: LooseEq(task.topic, topic))

\* the record of one invocation: task.cb.call(this, ...args)
Invocation(task, args, this, lvl) ==
    [id |-> task.id, cb |-> task.cb.v, args |-> args, this |-> this, lvl |-> lvl,
     done |-> FALSE, ret |-> Undef]

\* a callback that returned: its invocation record gets the value
Returned(r, idx) ==
    IF r.err = "" THEN [r EXCEPT !.w.log[idx].done = TRUE, !.w.log[idx].ret = r.ret]
    ELSE r

\* ctx = ctx ? ctx : task.ctx ? task.ctx : task
thisArg(ctx, task) ==
    IF Truthy(ctx) THEN ctx
    ELSE IF Truthy(Get(task, "ctx")) THEN task.ctx ELSE TaskV(task)

\* taskReturn = result ? result : taskReturn
track(result, taskReturn) == IF Truthy(result) THEN result ELSE taskReturn

haltsNever(task) == FALSE

\* if(task.stop) break
halts(task) == task.stop # 0

RECURSIVE emitFrom(_, _, _, _, _, _, _, _)
RECURSIVE emit(_, _, _, _, _, _)
RECURSIVE staticEmit(_, _, _, _)
RECURSIVE instanceEmit(_, _, _, _, _)
RECURSIVE call(_, _, _, _, _, _)

staticEmitTopicFirst(w, args, eng, lvl) ==
    emit(w, Arr(filter(w.queue, Arg(args, 1))), Rest(args, 1), Null, eng, lvl)

staticEmitSortsRegistry(w, args, eng, lvl) ==
    LET hasCtx == InstanceofObject(Arg(args, 1))
        ctx == IF hasCtx THEN args[1] ELSE Null
        a1 == IF hasCtx THEN Rest(args, 1) ELSE args
        w1 == [w EXCEPT !.queue = sort(@, eng)]
    IN emit(w1, Arr(filter(w1.queue, Arg(a1, 1))), Rest(a1, 1), ctx, eng, lvl)

\* static emit = (...args) => ..
staticEmit(w, args, eng, lvl) ==
    LET hasCtx == InstanceofObject(Arg(args, 1))
        ctx == IF hasCtx THEN args[1] ELSE Null
        a1 == IF hasCtx THEN Rest(args, 1) ELSE args
        topic == Arg(a1, 1)
        topicQueue == filter(w.queue, topic)
    IN emit(w, Arr(topicQueue), Rest(a1, 1), ctx, eng, lvl)

instanceEmitUnhookable(w, name, args, eng, lvl) ==
    LET hasCtx == InstanceofObject(Arg(args, 1))
        ctx == IF hasCtx THEN args[1] ELSE Null
        a1 == IF hasCtx THEN Rest(args, 1) ELSE args
    IN emit(w, Arr(filter(w.iq[name], Arg(a1, 1))), Rest(a1, 1), ctx, eng, lvl)

\* features.emit of instance `name`
instanceEmit(w, name, args, eng, lvl) ==
    LET hasCtx == InstanceofObject(Arg(args, 1))
        ctx == IF hasCtx THEN args[1] ELSE Null
        a1 == IF hasCtx THEN Rest(args, 1) ELSE args
        topic == Arg(a1, 1)
        f == staticEmit(w, <<Str(FeatureTopic(name, "filter")), LocalQueue(name), topic>>,
                        eng, lvl)
    IN IF f.err # "" THEN f
       ELSE emit(f.w, f.ret, Rest(a1, 1), ctx, eng, lvl)

\* task.cb.call(this, ...args)
call(w, task, args, this, eng, lvl) ==
    LET idx == Len(w.log) + 1
        w0 == IF task.cb.t # "function" THEN w
              ELSE [w EXCEPT !.log = Append(@, Invocation(task, args, this, lvl))]
        cb == task.cb.v
        r == CASE task.cb.t # "function" -> Result(w, Undef, "TypeError")
               [] cb.k = "user" -> Result(w0, UserRet(cb.v), "")
               [] cb.k = "#filter" ->
                    IF Arg(args, 1).t # "array" THEN Result(w0, Undef, "TypeError")
                    ELSE Result(w0, Arr(filter(Elems(w0, args[1]), Arg(args, 2))), "")
               [] cb.k = "wildcard" ->
                    IF Arg(args, 1).t # "array" \/ Arg(args, 2).t \in {"undefined", "null"}
                    THEN Result(w0, Undef, "TypeError")
                    ELSE Result(w0, Arr(wildcardFilter(Elems(w0, args[1]), args[2])), "")
               [] cb.k = "queue" -> Result(w0, LocalQueue(cb.v), "")
               [] cb.k = "pass" -> Result(w0, Arg(args, 1), "")
               [] cb.k = "on" -> on(w0, cb.v, Arg(args, 1), Arg(args, 2), Arg(args, 3))
               [] cb.k = "emit" -> instanceEmit(w0, cb.v, args, eng, lvl + 1)
               [] cb.k = "throw" -> Result(w0, Undef, "Error")
               [] cb.k = "register" ->
                    Result(on(w0, "", Str(cb.v), Fn(User("cbN")), Obj([sort |-> 1])).w, Undef, "")
               [] cb.k = "reenter" -> staticEmit(w0, <<Str(cb.v)>>, eng, lvl + 1)
               [] OTHER -> Result(w0, Undef, "TypeError")
    IN Returned(r, idx)

RECURSIVE emitFromCatching(_, _, _, _, _, _, _, _)
emitFromCatching(w, sorted, i, args, ctx, taskReturn, eng, lvl) ==
    IF i > Len(sorted) THEN Result(w, taskReturn, "")
    ELSE
      LET task == sorted[i]
          ctx1 == thisArg(ctx, task)
          r == call(w, task, args, ctx1, eng, lvl)
          taskReturn1 == track(r.ret, taskReturn)
      IN IF r.err = "" /\ halts(task) THEN Result(r.w, taskReturn1, "")
         ELSE emitFromCatching(r.w, sorted, i + 1, args, ctx1, taskReturn1, eng, lvl)

RECURSIVE emitFromLive(_, _, _, _, _, _, _, _)
emitFromLive(w, sorted, i, args, ctx, taskReturn, eng, lvl) ==
    IF i > Len(sorted) THEN Result(w, taskReturn, "")
    ELSE
      LET task == sorted[i]
          ctx1 == thisArg(ctx, task)
          r == call(w, task, args, ctx1, eng, lvl)
          taskReturn1 == track(r.ret, taskReturn)
          rm == IF task.once # 0 THEN removeTask(r.w, task) ELSE Result(r.w, Undef, "")
      IN IF r.err # "" THEN r
         ELSE IF rm.err # "" THEN rm
         ELSE IF halts(task) THEN Result(rm.w, taskReturn1, "")
         ELSE emitFromLive(rm.w, sort(filter(rm.w.queue, task.topic), eng), i + 1,
                           args, ctx1, taskReturn1, eng, lvl)

\* the loop of static #emit, at position i of the sorted queue
emitFrom(w, sorted, i, args, ctx, taskReturn, eng, lvl) ==
    IF i > Len(sorted) THEN Result(w, taskReturn, "")
    ELSE
      LET task == sorted[i]
          ctx1 == thisArg(ctx, task)
          r == call(w, task, args, ctx1, eng, lvl)
          taskReturn1 == track(r.ret, taskReturn)
          rm == IF task.once # 0 THEN removeTask(r.w, task) ELSE Result(r.w, Undef, "")
      IN IF r.err # "" THEN r
         ELSE IF rm.err # "" THEN rm
         ELSE IF halts(task) THEN Result(rm.w, taskReturn1, "")
         ELSE emitFrom(rm.w, sorted, i + 1, args, ctx1, taskReturn1, eng, lvl)

\* static #emit: currentQueue.sort(..) sorts the array it is given in place,
\* a local collection when that is what it was handed
emit(w, currentQueue, args, ctx, eng, lvl) ==
    IF currentQueue.t # "array" THEN Result(w, Undef, "TypeError")
    ELSE LET sorted == sort(Elems(w, currentQueue), eng)
             w1 == IF "of" \in DOMAIN currentQueue
                   THEN [w EXCEPT !.iq[currentQueue.of] = sorted]
                   ELSE w
         IN emitFrom(w1, sorted, 1, args, ctx, Undef, eng, lvl)

-----------------------------------------------------------------------------
(* The calls a client makes.                                               *)

\* tasks registered by clients (the feature tasks of the instances aside)
RECURSIVE SumLen(_, _)
SumLen(f, S) ==
    IF S = {} THEN 0
    ELSE LET n == CHOOSE x \in S : TRUE IN Len(f[n]) + SumLen(f, S \ {n})

ClientTasks ==
    Len(queue) - SumLen([n \in DOMAIN instances |-> instances[n].features], DOMAIN instances)
    + SumLen(iq, DOMAIN iq)

\* the state a call leaves, with the record of the call
Commit(r, call_) ==
    /\ queue' = r.w.queue
    /\ iq' = r.w.iq
    /\ nextId' = r.w.nextId
    /\ log' = r.w.log
    /\ ret' = r.ret
    /\ err' = r.err
    /\ op' = call_
    /\ UNCHANGED engine

\* a call that leaves the instances as they are
Keep(r, call_) == Commit(r, call_) /\ UNCHANGED instances

Fresh == [World EXCEPT !.log = <<>>]

\* xT.on(topic, cb, opts)
StaticOn(topic, cb, opts) ==
    Keep(on(Fresh, "", topic, cb, opts),
         [kind |-> "on", name |-> "", prop |-> "", args |-> <<topic, cb, opts>>])

\* xT.emit(...args)
StaticEmit(args) ==
    Keep(staticEmit(Fresh, args, engine, 1),
         [kind |-> "emit", name |-> "", prop |-> "", args |-> args])

-----------------------------------------------------------------------------
(* Instances.                                                              *)

Proxy(id) == [t |-> "proxy", v |-> id]

\* xT.#instances is an object literal: a lookup also finds what every object
\* inherits from Object.prototype
ObjectPrototypeKeys == {"constructor", "toString", "valueOf", "hasOwnProperty"}

existingNever(inst, name) == Undef

\* xT.#instances[name]
existing(inst, name) ==
    IF name \in DOMAIN inst THEN Proxy(inst[name].proxy)
    ELSE IF name \in ObjectPrototypeKeys THEN Fn([k |-> "inherited", v |-> name])
    ELSE Undef

\* an object literal keeps its keys in insertion order: assigning an existing
\* key replaces the value in place, a new key goes last
Keys(entries) == [i \in 1..Len(entries) |-> entries[i].key]

HasKey(entries, key) == \E i \in 1..Len(entries) : entries[i].key = key

Put(entries, key, action) ==
    IF HasKey(entries, key)
    THEN [i \in 1..Len(entries) |->
            IF entries[i].key = key THEN [key |-> key, action |-> action] ELSE entries[i]]
    ELSE Append(entries, [key |-> key, action |-> action])

RECURSIVE PutAll(_, _)
PutAll(entries, more) ==
    IF more = <<>> THEN entries
    ELSE PutAll(Put(entries, Head(more).key, Head(more).action), Tail(more))

effectiveFeaturesDefaultFilterLast(name, features) ==
    Put(Put(Put(Put(PutAll(<<>>, features), "filter", Fn(FilterCb)),
                "queue", Fn(QueueCb(name))),
            "on", Fn(OnCb(name))),
        "emit", Fn(EmitCb(name)))

effectiveFeaturesSuppliedLast(name, features) ==
    PutAll(<<[key |-> "filter", action |-> Fn(FilterCb)],
             [key |-> "queue", action |-> Fn(QueueCb(name))],
             [key |-> "on", action |-> Fn(OnCb(name))],
             [key |-> "emit", action |-> Fn(EmitCb(name))]>>, features)

\* features = { filter: xT.#filter, ...features, queue: .., on: .., emit: .. }
effectiveFeatures(name, features) ==
    Put(Put(Put(PutAll(<<[key |-> "filter", action |-> Fn(FilterCb)]>>, features),
                "queue", Fn(QueueCb(name))),
            "on", Fn(OnCb(name))),
        "emit", Fn(EmitCb(name)))

\* Object.entries(features).forEach(([prop, action]) => xT.on(`$${name}:${prop}`, action))
RECURSIVE addFeatures(_, _, _)
addFeatures(w, name, entries) ==
    IF entries = <<>> THEN w
    ELSE addFeatures(
            on(w, "", Str(FeatureTopic(name, Head(entries).key)), Head(entries).action, Undef).w,
            name, Tail(entries))

\* new xT(name, features)
Construct(name, features) ==
    LET found == existing(instances, name)
        call_ == [kind |-> "new", name |-> name, prop |-> "", args |-> features]
    IN IF Truthy(found)
       THEN Keep(Result(Fresh, found, ""), call_)
       ELSE LET entries == effectiveFeatures(name, features)
                w0 == [Fresh EXCEPT !.iq = (name :> <<>>) @@ @, !.nextId = @ + 1]
                w1 == addFeatures(w0, name, entries)
            IN /\ Commit(Result(w1, Proxy(nextId), ""), call_)
               /\ instances' = (name :> [proxy |-> nextId, features |-> entries]) @@ instances

\* a function made by f.bind(thisArg, ...args) from the static emit: the
\* arguments it supplies ahead of the caller's; binding a bound function
\* again adds arguments and cannot change its thisArg
BoundEmit(args) == [this |-> Null, args |-> args]

Bind(bound, this, args) == [bound EXCEPT !.args = @ \o args]

\* the get trap of the Proxy
get(inst, name, prop) ==
    LET redirect(p) == BoundEmit(<<Str(FeatureTopic(name, p))>>)
    IN IF HasKey(inst[name].features, prop) THEN redirect(prop)
       ELSE Bind(redirect("emit"), Str(prop), <<>>)

\* instance[prop](...args), instance the handle stored under `name`
InstanceCall(name, prop, args) ==
    /\ name \in DOMAIN instances
    /\ Keep(staticEmit(Fresh, get(instances, name, prop).args \o args, engine, 1),
            [kind |-> "call", name |-> name, prop |-> prop, args |-> args])

-----------------------------------------------------------------------------
(* Inputs.                                                                 *)

Callbacks == {"cbA", "cbB", "cbZ"}

\* xT.on(topic, cb, opts) as made against the core registry alone
CoreRegistrations ==
    {<<Str("t"), Fn(User(cb)), opts>> :
        cb \in Callbacks,
        opts \in {Undef, Obj([sort |-> -1]), Obj([sort |-> 1, stop |-> 1])}}
    \cup {<<Str("t"), Fn(User("cbB")), Obj([sort |-> 2])>>,
          <<Str("t"), Fn(User("cbA")), Obj([once |-> 1])>>,
          <<Str("s"), Fn(User("cbB")), Undef>>}

CoreEmits ==
    {<<Str("t")>>, <<Str("t"), Num(1), Num(2)>>, <<Str("s")>>, <<Obj("o"), Str("t"), Num(1)>>}

Init ==
    /\ queue = <<>>
    /\ instances = <<>>
    /\ iq = <<>>
    /\ nextId = 1
    /\ engine \in {"keep", "reverse"}
    /\ op = [kind |-> "init", name |-> "", prop |-> "", args |-> <<>>]
    /\ log = <<>>
    /\ ret = Undef
    /\ err = ""

Next ==
    \/ \E r \in CoreRegistrations : ClientTasks < MaxTasks /\ StaticOn(r[1], r[2], r[3])
    \/ \E args \in CoreEmits : StaticEmit(args)

Spec == Init /\ [][Next]_vars

\* clients that construct instances, call them and hook their feature topics
InstanceNames == {"u", "constructor"}

FeatureMaps ==
    {<<>>,
     <<[key |-> "filter", action |-> Fn(WildcardCb)]>>,
     <<[key |-> "hello", action |-> Fn(User("cbA"))]>>}

HookRegistrations ==
    {<<Str(FeatureTopic("u", "emit")), Fn(User("cbA")), Obj([sort |-> -1])>>,
     <<Str(FeatureTopic("u", "emit")), Fn(User("cbZ")), Obj([sort |-> 1])>>,
     <<Str(FeatureTopic("u", "emit")), Fn(User("cbB")), Obj([sort |-> -1, once |-> 1])>>,
     <<Str(FeatureTopic("u", "on")), Fn(User("cbZ")), Obj([sort |-> -1, stop |-> 1])>>,
     <<Str(FeatureTopic("u", "filter")), Fn(WildcardCb), Obj([sort |-> -1, stop |-> 1])>>,
     <<Str("t"), Fn(User("cbB")), Undef>>}

InstanceCalls ==
    {<<"on", <<Str("t"), Fn(User("cbA")), Undef>>>>,
     <<"on", <<Str("t"), Fn(User("cbB")), Obj([sort |-> -1])>>>>,
     <<"on", <<Str("tx"), Fn(User("cbZ")), Obj([sort |-> 1, stop |-> 1])>>>>,
     <<"on", <<Str("t"), Fn(User("cbZ")), Obj([once |-> 1])>>>>,
     <<"emit", <<Str("t")>>>>,
     <<"emit", <<Str("t"), Num(1), Num(2)>>>>,
     <<"emit", <<Str("t*")>>>>,
     <<"queue", <<>>>>,
     <<"filter", <<Arr(<<>>), Str("t")>>>>,
     <<"hello", <<Num(1)>>>>,
     <<"foo", <<>>>>,
     <<"foo", <<Str("t"), Num(1)>>>>}

InstanceNext ==
    \/ \E name \in InstanceNames, features \in FeatureMaps : Construct(name, features)
    \/ \E r \in HookRegistrations :
          ClientTasks < MaxInstanceTasks /\ StaticOn(r[1], r[2], r[3])
    \/ \E c \in InstanceCalls :
          /\ c[1] = "on" => ClientTasks < MaxInstanceTasks
          /\ InstanceCall("u", c[1], c[2])
    \/ StaticEmit(<<Str("t")>>)

InstanceSpec == Init /\ [][InstanceNext]_vars

\* clients that construct with features named as the built-ins are
FeatureOverrides ==
    {<<>>,
     <<[key |-> "queue", action |-> Fn(User("cbA"))]>>,
     <<[key |-> "on", action |-> Fn(User("cbB"))], [key |-> "hello", action |-> Fn(User("cbA"))]>>,
     <<[key |-> "emit", action |-> Fn(User("cbZ"))], [key |-> "filter", action |-> Fn(WildcardCb)]>>,
     <<[key |-> "filter", action |-> Fn(PassCb)]>>,
     <<[key |-> "hello", action |-> Fn(User("cbA"))], [key |-> "queue", action |-> Fn(User("cbB"))],
       [key |-> "on", action |-> Fn(User("cbA"))], [key |-> "emit", action |-> Fn(User("cbB"))]>>}

FeatureHooks ==
    {<<Str(FeatureTopic("u", "queue")), Fn(User("cbB")), Obj([sort |-> 1])>>,
     <<Str(FeatureTopic("u", "on")), Fn(User("cbZ")), Obj([sort |-> -1])>>}

FeatureCalls ==
    {<<"on", <<Str("t"), Fn(User("cbA")), Undef>>>>,
     <<"on", <<Str("t"), Fn(User("cbB")), Obj([sort |-> -1])>>>>,
     <<"emit", <<Str("t"), Num(1)>>>>,
     <<"emit", <<Str("t*")>>>>,
     <<"queue", <<>>>>,
     <<"hello", <<Num(1)>>>>}

FeatureNext ==
    \/ \E features \in FeatureOverrides : Construct("u", features)
    \/ \E r \in FeatureHooks :
          ClientTasks < MaxFeatureTasks /\ StaticOn(r[1], r[2], r[3])
    \/ \E c \in FeatureCalls :
          /\ c[1] = "on" => ClientTasks < MaxFeatureTasks
          /\ InstanceCall("u", c[1], c[2])

FeatureSpec == Init /\ [][FeatureNext]_vars

\* clients of two instances and of the core registry, all using one topic
PeerNames == {"u", "v"}

PeerRegistrations ==
    {<<Str("t"), Fn(User("cbZ")), Undef>>,
     <<Str("t"), Fn(User("cbA")), Obj([sort |-> 1])>>}

PeerCalls ==
    {<<"on", <<Str("t"), Fn(User("cbA")), Undef>>>>,
     <<"on", <<Str("t"), Fn(User("cbB")), Obj([sort |-> -1])>>>>,
     <<"emit", <<Str("t"), Num(1)>>>>,
     <<"queue", <<>>>>}

PeerNext ==
    \/ \E name \in PeerNames : Construct(name, <<>>)
    \/ \E r \in PeerRegistrations :
          ClientTasks < MaxPeerTasks /\ StaticOn(r[1], r[2], r[3])
    \/ \E name \in PeerNames, c \in PeerCalls :
          /\ c[1] = "on" => ClientTasks < MaxPeerTasks
          /\ InstanceCall(name, c[1], c[2])
    \/ StaticEmit(<<Str("t"), Num(1)>>)

PeerSpec == Init /\ [][PeerNext]_vars

\* clients of the core registry whose callbacks raise, register tasks and
\* emit while an emit runs, and whose tasks carry a ctx
DispatchRegistrations ==
    {<<Str("t"), Fn(User("cbA")), Undef>>,
     <<Str("t"), Fn(User("cbB")), Obj([sort |-> -1])>>,
     <<Str("t"), Fn(User("cbZ")), Obj([sort |-> 1, stop |-> 1])>>,
     <<Str("t"), Fn(User("cbA")), Obj([ctx |-> Obj("c")])>>,
     <<Str("t"), Fn(User("cbB")), Obj([sort |-> 1, ctx |-> Obj("d")])>>,
     <<Str("t"), Fn(User("cbA")), Obj([once |-> 1])>>,
     <<Str("t"), Fn(ThrowCb), Undef>>,
     <<Str("t"), Num(7), Obj([sort |-> 1])>>,
     <<Str("t"), Fn(RegisterCb("t")), Undef>>,
     <<Str("s"), Fn(ReenterCb("t")), Undef>>}

DispatchEmits ==
    {<<Str("t")>>, <<Str("s")>>, <<Str("t"), Num(1), Num(2)>>,
     <<Obj("o"), Str("t"), Num(1)>>, <<Arr(<<>>), Str("t")>>, <<Fn(User("cbA")), Str("t")>>,
     <<Null, Str("t")>>, <<Num(5), Str("t")>>, <<>>}

DispatchNext ==
    \/ \E r \in DispatchRegistrations :
          Len(queue) < MaxDispatchTasks /\ StaticOn(r[1], r[2], r[3])
    \/ \E args \in DispatchEmits :
          StaticEmit(args) /\ Len(queue') <= MaxDispatchTasks + 1

DispatchSpec == Init /\ [][DispatchNext]_vars

-----------------------------------------------------------------------------
(* What the properties speak about.                                        *)

Range(seq) == {seq[i] : i \in 1..Len(seq)}

\* every task object that is registered, in the core registry or in an instance
Registered == Range(queue) \cup UNION {Range(iq[n]) : n \in DOMAIN iq}

TaskById(id) == CHOOSE task \in Registered : task.id = id

\* the invocations made by the loop of the outermost emit of the last call
Outer == SelectSeq(log, LAMBDA e : e.lvl = 1)

\* the invocations of tasks of the local collection of instance `name`
Local(name) == SelectSeq(log, LAMBDA e : \E task \in Range(iq[name]) : task.id = e.id)

PairwiseDistinctSorts(tasks) ==
    \A a, b \in tasks : a.id # b.id => a.sort # b.sort

\* the tasks of a sequence of invocations
Ran(entries) == {TaskById(entries[i].id) : i \in 1..Len(entries)}

\* the invocations follow ascending sort, and pass over no task of `candidates`
\* that sorts before one they reach
Ascending(entries, candidates) ==
    /\ \A i, j \in 1..Len(entries) :
          i < j => TaskById(entries[i].id).sort < TaskById(entries[j].id).sort
    /\ \A j \in 1..Len(entries) : \A c \in candidates :
          c.sort < TaskById(entries[j].id).sort => \E i \in 1..(j - 1) : entries[i].id = c.id

-----------------------------------------------------------------------------
(* C1: when the tasks registered for a topic have pairwise distinct sort   *)
(* values, an emit of the topic invokes them in strictly ascending sort    *)
(* order whatever the order of registration, so a hook on a feature topic  *)
(* with sort < 0 runs before the feature's own task and one with sort > 0  *)
(* after it; the same holds of the local tasks an instance emit runs.      *)
C1_AscendingSortOrder ==
    /\ Outer # <<>> =>
          LET candidates == {task \in Range(queue) : task.topic = TaskById(Outer[1].id).topic}
          IN PairwiseDistinctSorts(candidates) => Ascending(Outer, candidates)
    /\ \A n \in DOMAIN iq :
          PairwiseDistinctSorts(Ran(Local(n))) => Ascending(Local(n), Ran(Local(n)))

\* a hook with sort 1 registered before a hook with sort -1, and the feature
\* task between them: the emit ran hook -1, the feature, hook 1
C1_Witness ==
    /\ Len(Outer) = 3
    /\ Outer[2].cb = EmitCb("u")
    /\ TaskById(Outer[1].id).sort < 0
    /\ TaskById(Outer[3].id).sort > 0
    /\ Outer[1].id > Outer[3].id

-----------------------------------------------------------------------------
(* C2: a task registered with once set is absent from its collection once  *)
(* an emit has executed it, so it runs once in total.  The code calls      *)
(* removeTask, which is bound nowhere: the emit raises and the task stays. *)
C2_OnceTaskRemoved ==
    \A task \in Registered :
        task.once # 0 => ~ \E i \in 1..Len(log) : log[i].id = task.id /\ log[i].done

-----------------------------------------------------------------------------
(* C3: within one emit, a task with stop set that has run is the last one  *)
(* invoked; no task placed after it in the sorted sequence is invoked and  *)
(* every task placed before it has been invoked.                           *)
C3_StopHalts ==
    \A i \in 1..Len(Outer) :
        (Outer[i].done /\ TaskById(Outer[i].id).stop # 0) =>
            LET matching == SelectSeq(queue, LAMBDA task :
                                task.topic = TaskById(Outer[1].id).topic)
                sorted == sort(matching, engine)
                stopper == TaskById(Outer[i].id)
            IN /\ i = Len(Outer)
               /\ \A j \in 1..i : Outer[j].id = sorted[j].id
               /\ \A task \in Range(matching) :
                    /\ task.sort < stopper.sort => \E j \in 1..i : Outer[j].id = task.id
                    /\ task.sort > stopper.sort => ~ \E j \in 1..Len(log) : log[j].id = task.id

\* three tasks of the topic: one ran, the task with stop ran, the third did not
C3_Witness ==
    /\ op.kind = "emit"
    /\ Len(Outer) = 2
    /\ TaskById(Outer[2].id).stop # 0
    /\ \E task \in Range(queue) :
          /\ task.topic = TaskById(Outer[2].id).topic
          /\ task.sort > TaskById(Outer[2].id).sort

-----------------------------------------------------------------------------
(* C4: emit returns the last truthy value among the values its callbacks   *)
(* returned, in execution order, and undefined when there is none; it does *)
(* not raise.  An emit that executes a once task raises (see C2).          *)
LastTruthy(entries) ==
    LET truthy == {i \in 1..Len(entries) : Truthy(entries[i].ret)}
    IN IF truthy = {} THEN Undef
       ELSE entries[CHOOSE i \in truthy : \A j \in truthy : j <= i].ret

C4_ReturnsLastTruthy ==
    op.kind = "emit" => err = "" /\ ret = LastTruthy(Outer)

-----------------------------------------------------------------------------
(* C8: on appends exactly one new task to the end of the collection and    *)
(* returns it; the task has the topic and the callback given and sort 0,   *)
(* stop 0, once 0 except where opts overrides them; the tasks already      *)
(* registered stay, in their order.                                        *)
C8_OnAppendsOneTask ==
    [][op'.kind = "on" =>
         LET task == queue'[Len(queue')]
             given == IF op'.args[3].t = "undefined" THEN <<>> ELSE op'.args[3].v
         IN /\ err' = ""
            /\ Len(queue') = Len(queue) + 1
            /\ SubSeq(queue', 1, Len(queue)) = queue
            /\ ret' = TaskV(task)
            /\ \A old \in Range(queue) : old.id # task.id
            /\ task.topic = op'.args[1]
            /\ task.cb = op'.args[2]
            /\ \A k \in {"sort", "stop", "once"} :
                  task[k] = IF k \in DOMAIN given THEN given[k] ELSE 0]_vars

\* on with options, for a topic and a callback that a registered task has
C8_Witness ==
    /\ op.kind = "on"
    /\ Len(queue) >= 2
    /\ op.args[3].t = "object"
    /\ ret = TaskV(queue[Len(queue)])
    /\ queue[Len(queue)].sort # 0
    /\ \E i \in 1..(Len(queue) - 1) :
          /\ queue[i].topic = queue[Len(queue)].topic
          /\ queue[i].cb = queue[Len(queue)].cb

-----------------------------------------------------------------------------
(* C5: constructing with a name that exists returns the handle of the      *)
(* first construction, ignores the features given, and leaves the core     *)
(* registry and the instance as they are; a handle, once stored, stays.    *)
C5_RepeatConstruction ==
    [][/\ \A n \in DOMAIN instances :
              n \in DOMAIN instances' /\ instances'[n] = instances[n]
       /\ (op'.kind = "new" /\ op'.name \in DOMAIN instances') =>
              /\ err' = ""
              /\ ret' = Proxy(instances'[op'.name].proxy)
       /\ (op'.kind = "new" /\ op'.name \in DOMAIN instances) =>
              /\ queue' = queue
              /\ iq' = iq
              /\ instances' = instances]_vars

\* a repeat construction that passes a feature the instance does not have
C5_Witness ==
    /\ op.kind = "new"
    /\ op.name \in DOMAIN instances
    /\ op.args # <<>>
    /\ ~ HasKey(instances[op.name].features, op.args[1].key)
    /\ ret = Proxy(instances[op.name].proxy)

-----------------------------------------------------------------------------
(* Instance calls, as the properties read them from the log.               *)

Index(entries, key) == CHOOSE i \in 1..Len(entries) : entries[i].key = key

\* the task the constructor registered for feature `key` of instance n: the
\* constructor allocates the handle and then one task per entry, in order
OwnTask(n, key) ==
    CHOOSE task \in Range(queue) :
        task.id = instances[n].proxy + Index(instances[n].features, key)

\* the tasks registered on the topic of feature `key` of instance n
OnFeatureTopic(n, key) ==
    {task \in Range(queue) : task.topic = Str(FeatureTopic(n, key))}

\* no client task is registered on the topic of feature `key` of instance n
Unhooked(n, key) == OnFeatureTopic(n, key) = {OwnTask(n, key)}

Ids(seq) == [i \in 1..Len(seq) |-> seq[i].id]

IsPrefix(a, b) == Len(a) <= Len(b) /\ a = SubSeq(b, 1, Len(a))

\* the topic an invocation of features.emit was given, and its call arguments
EmitTopic(e) == IF InstanceofObject(Arg(e.args, 1)) THEN Arg(e.args, 2) ELSE Arg(e.args, 1)

EmitArgs(e) == IF InstanceofObject(Arg(e.args, 1)) THEN Rest(e.args, 2) ELSE Rest(e.args, 1)

\* the tasks a static emit made in the current state will select, sorted
Selected(args) == sort(filter(queue, EmitTopic([args |-> args])), engine)

\* the invocations of the outermost loop among `entries`
OuterOf(entries) == SelectSeq(entries, LAMBDA e : e.lvl = 1)

\* the head of a sorted queue that an emit loop runs: up to the first task with stop
RECURSIVE UpToStop(_)
UpToStop(sorted) ==
    IF sorted = <<>> THEN <<>>
    ELSE IF Head(sorted).stop # 0 THEN <<Head(sorted)>>
    ELSE <<Head(sorted)>> \o UpToStop(Tail(sorted))

\* an instance emit of n that took its candidates from the wildcard filter
\* the instance was constructed with
SelectsWithSupplied(n, e) ==
    \E i \in 1..Len(log) :
        /\ log[i].id = OwnTask(n, "filter").id
        /\ log[i].args = <<LocalQueue(n), EmitTopic(e)>>
        /\ log[i].done =>
              LET candidates == sort(wildcardFilter(iq[n], EmitTopic(e)), engine)
              IN /\ log[i].ret = Arr(wildcardFilter(iq[n], EmitTopic(e)))
                 /\ IsPrefix(Ids(Local(n)), Ids(candidates))
                 /\ candidates # <<>> => Local(n) # <<>>
                 /\ ~ \E j \in 1..Len(log) : log[j].cb = FilterCb

\* a construction that is given a filter registers one task on the filter
\* topic, with the filter given
RegistersSupplied ==
    (/\ op'.kind = "new"
     /\ op'.name \notin DOMAIN instances
     /\ op'.name \in DOMAIN instances'
     /\ HasKey(op'.args, "filter")) =>
        LET added == SubSeq(queue', Len(queue) + 1, Len(queue'))
            onTopic == SelectSeq(added, LAMBDA task :
                          task.topic = Str(FeatureTopic(op'.name, "filter")))
        IN /\ Len(onTopic) = 1
           /\ onTopic[1].cb = op'.args[Index(op'.args, "filter")].action

SuppliedFilter(n) == OwnTask(n, "filter").cb # Fn(FilterCb)

-----------------------------------------------------------------------------
(* C6, as claimed: after a construction with a supplied filter, every      *)
(* later emit on the instance selects its candidates with that filter.     *)
(* A client task on $<name>:filter (README, "Hook / replace / modify       *)
(* filter") takes the selection over.                                      *)
C6_SuppliedFilterAlways ==
    \A n \in DOMAIN instances : \A i \in 1..Len(log) :
        (SuppliedFilter(n) /\ log[i].cb = EmitCb(n)) => SelectsWithSupplied(n, log[i])

(* C6, amended: the construction registers exactly one task on             *)
(* $<name>:filter, the supplied filter; as long as no other task is        *)
(* registered on that topic, every run of the instance's emit selects its  *)
(* candidates with the supplied filter and the default filter is not       *)
(* invoked for the instance.                                               *)
C6_SuppliedFilterUnhooked ==
    /\ [][RegistersSupplied]_vars
    /\ [](\A n \in DOMAIN instances : \A i \in 1..Len(log) :
            (SuppliedFilter(n) /\ Unhooked(n, "filter") /\ log[i].cb = EmitCb(n))
                => SelectsWithSupplied(n, log[i]))

\* emit('t*') on an instance constructed with the wildcard filter ran the
\* local tasks 't' and 'tx', which the default filter would not select
C6_Witness ==
    /\ op.kind = "call" /\ op.prop = "emit" /\ op.args = <<Str("t*")>>
    /\ SuppliedFilter(op.name)
    /\ Unhooked(op.name, "filter")
    /\ Len(Local(op.name)) = 2
    /\ filter(iq[op.name], Str("t*")) = <<>>

-----------------------------------------------------------------------------
(* C7: u.emit(topic, ...args) on an instance with the default filter (and  *)
(* no client task on $u:emit or $u:filter) first emits $u:filter with the  *)
(* local collection and the topic, then runs the local tasks whose topic   *)
(* equals the topic, in sort order up to a task with stop, each with args, *)
(* and returns their tracked result.  With a once task among them the call *)
(* raises instead of returning (see C2).                                   *)
C7_InstanceEmitDefaultFilter ==
    (/\ op.kind = "call" /\ op.prop = "emit"
     /\ ~ SuppliedFilter(op.name)
     /\ Unhooked(op.name, "emit") /\ Unhooked(op.name, "filter")) =>
        LET n == op.name
            e == log[1]
            matching == SelectSeq(iq[n], LAMBDA task : task.topic = EmitTopic(e))
        IN /\ err = ""
           /\ e.id = OwnTask(n, "emit").id /\ e.args = op.args
           /\ log[2].id = OwnTask(n, "filter").id
           /\ log[2].args = <<LocalQueue(n), EmitTopic(e)>>
           /\ log[2].ret = Arr(matching)
           /\ Ids(SubSeq(log, 3, Len(log))) = Ids(UpToStop(sort(matching, engine)))
           /\ \A i \in 3..Len(log) : log[i].args = EmitArgs(e)
           /\ ret = LastTruthy(SubSeq(log, 3, Len(log)))

-----------------------------------------------------------------------------
(* C9: a call of a declared feature through the handle emits the feature   *)
(* topic on the core registry with the call's arguments, so every task     *)
(* registered on that topic is invoked with them, unless a task sorted     *)
(* before it (or level with it) has stop set.  A once task sorted before   *)
(* it makes the emit raise before it is reached (see C2).                  *)
C9_HooksAlwaysInvoked ==
    (op.kind = "call" /\ HasKey(instances[op.name].features, op.prop)) =>
        \A task \in OnFeatureTopic(op.name, op.prop) :
            (~ \E other \in OnFeatureTopic(op.name, op.prop) :
                  other.id # task.id /\ other.stop # 0 /\ other.sort <= task.sort)
            => \E i \in 1..Len(Outer) : Outer[i].id = task.id /\ Outer[i].args = op.args

-----------------------------------------------------------------------------
(* C10: a property that is no declared feature yields an invoker that runs *)
(* the instance's emit with the property name as first argument: the call  *)
(* emits topic prop over the local collection, and invokes no local task   *)
(* when none has that topic.  The code binds prop as thisArg, not as an    *)
(* argument, so the topic is the caller's first argument.                  *)
C10_UnknownPropertyEmitsProp ==
    (op.kind = "call" /\ ~ HasKey(instances[op.name].features, op.prop)) =>
        /\ \A i \in 1..Len(log) :
              log[i].cb = EmitCb(op.name) => log[i].args = <<Str(op.prop)>> \o op.args
        /\ (\A task \in Range(iq[op.name]) : task.topic # Str(op.prop)) =>
              Local(op.name) = <<>>

-----------------------------------------------------------------------------
-----------------------------------------------------------------------------
(* C12: constructing an instance with a new name appends to the core       *)
(* registry exactly one task per entry of the effective feature mapping,   *)
(* with topic $<name>:<featureName> and default options, in the order      *)
(* filter, supplied features, queue, on, emit; and whatever is called      *)
(* later, each of these feature tasks stays in the core registry.  A name  *)
(* that Object.prototype has (such as "constructor") is taken for an       *)
(* existing instance: nothing is registered.                               *)
SuppliedKeys(features) ==
    SelectSeq(Keys(features), LAMBDA key : key \notin {"filter", "queue", "on", "emit"})

C12_FeatureTasksRegistered ==
    [][/\ (op'.kind = "new" /\ op'.name \notin DOMAIN instances) =>
             LET keys == <<"filter">> \o SuppliedKeys(op'.args) \o <<"queue", "on", "emit">>
                 added == SubSeq(queue', Len(queue) + 1, Len(queue'))
             IN /\ SubSeq(queue', 1, Len(queue)) = queue
                /\ Len(added) = Len(keys)
                /\ \A i \in 1..Len(added) :
                      /\ added[i].topic = Str(FeatureTopic(op'.name, keys[i]))
                      /\ added[i].sort = 0 /\ added[i].stop = 0 /\ added[i].once = 0
                      /\ DOMAIN added[i] = {"id", "topic", "cb", "sort", "stop", "once"}
       /\ \A n \in DOMAIN instances : \A key \in Range(Keys(instances[n].features)) :
             OwnTask(n, key) \in Range(queue')]_vars

-----------------------------------------------------------------------------
(* C13: features named queue, on or emit that the caller supplies never    *)
(* replace the built-ins: the construction registers at $<name>:queue,     *)
(* $<name>:on and $<name>:emit one task each, the accessor of the local    *)
(* collection, the on bound to the local collection and the instance emit, *)
(* whatever features contains; a supplied filter is the one registered at  *)
(* $<name>:filter, and any other supplied feature is registered as given.  *)
(* Unhooked, queue() answers the local collection and on() appends to it.  *)
AddedAt(added, n, key) ==
    SelectSeq(added, LAMBDA task : task.topic = Str(FeatureTopic(n, key)))

BuiltIn(n, key) ==
    CASE key = "queue" -> Fn(QueueCb(n))
      [] key = "on" -> Fn(OnCb(n))
      [] key = "emit" -> Fn(EmitCb(n))
      [] OTHER -> Fn(FilterCb)

C13_BuiltInsWin ==
    /\ [][(/\ op'.kind = "new"
            /\ op'.name \notin DOMAIN instances
            /\ op'.name \in DOMAIN instances') =>
              LET n == op'.name
                  added == SubSeq(queue', Len(queue) + 1, Len(queue'))
              IN /\ \A key \in {"queue", "on", "emit"} :
                      /\ Len(AddedAt(added, n, key)) = 1
                      /\ AddedAt(added, n, key)[1].cb = BuiltIn(n, key)
                 /\ \A i \in 1..Len(op'.args) :
                      op'.args[i].key \notin {"queue", "on", "emit"} =>
                         /\ Len(AddedAt(added, n, op'.args[i].key)) = 1
                         /\ AddedAt(added, n, op'.args[i].key)[1].cb = op'.args[i].action
                 /\ Len(AddedAt(added, n, "filter")) = 1
                 /\ ~ HasKey(op'.args, "filter") =>
                         AddedAt(added, n, "filter")[1].cb = BuiltIn(n, "filter")]_vars
    /\ []((op.kind = "call" /\ op.prop = "queue" /\ Unhooked(op.name, "queue")) =>
             /\ err = "" /\ ret = LocalQueue(op.name)
             /\ Len(log) = 1 /\ log[1].cb = QueueCb(op.name))
    /\ [][(op'.kind = "call" /\ op'.prop = "on" /\ Unhooked(op'.name, "on")) =>
             /\ Len(iq'[op'.name]) = Len(iq[op'.name]) + 1
             /\ ret' = TaskV(iq'[op'.name][Len(iq'[op'.name])])
             /\ queue' = queue]_vars

\* an instance constructed with features named queue, on and emit, whose
\* queue() then answered the local collection holding a task
C13_Witness ==
    /\ op.kind = "call" /\ op.prop = "queue"
    /\ Unhooked(op.name, "queue")
    /\ HasKey(instances[op.name].features, "hello")
    /\ Index(instances[op.name].features, "queue") = 3
    /\ iq[op.name] # <<>>
    /\ ret = LocalQueue(op.name)

-----------------------------------------------------------------------------
(* C14: the static emit takes its first argument for the execution context *)
(* exactly when it is object-typed (an object, an array, a function): then *)
(* the second argument is the topic, the rest are the call arguments and   *)
(* every callback it runs gets that context as this; otherwise the first   *)
(* argument is the topic, the rest are the call arguments and the loop     *)
(* starts without a context: the first callback runs with its own task's   *)
(* ctx or record, and none with a value taken from the arguments.          *)
ObjectTyped(x) == x.t \in {"object", "array", "function"}

OwnContext(task) == IF "ctx" \in DOMAIN task /\ Truthy(task.ctx) THEN task.ctx ELSE TaskV(task)

C14_ContextIfObjectTyped ==
    [][op'.kind = "emit" =>
         LET first == Arg(op'.args, 1)
             topic == IF ObjectTyped(first) THEN Arg(op'.args, 2) ELSE first
             given == IF ObjectTyped(first) THEN Rest(op'.args, 2) ELSE Rest(op'.args, 1)
         IN \A selected \in {sort(SelectSeq(queue, LAMBDA task : task.topic = topic), engine)} :
            \A outer \in {OuterOf(log')} :
            /\ IsPrefix(Ids(outer), Ids(selected))
            /\ (selected # <<>> /\ selected[1].cb.t = "function") => outer # <<>>
            /\ \A i \in 1..Len(outer) :
                  /\ outer[i].args = given
                  /\ ObjectTyped(first) => outer[i].this = first
                  /\ ~ ObjectTyped(first) => outer[i].this \notin Range(op'.args)
            /\ (~ ObjectTyped(first) /\ outer # <<>>) =>
                  outer[1].this = OwnContext(selected[1])]_vars

\* xT.emit(o, 't', 1) ran two tasks with this = o, one of them a task that
\* has a ctx of its own
C14_Witness ==
    /\ op.kind = "emit" /\ op.args = <<Obj("o"), Str("t"), Num(1)>>
    /\ Len(log) >= 2
    /\ \A i \in 1..Len(log) : log[i].this = Obj("o") /\ log[i].args = <<Num(1)>>
    /\ \E i \in 1..Len(log) : "ctx" \in DOMAIN TaskById(log[i].id)

-----------------------------------------------------------------------------
(* C15: each invoked task's execution context is resolved for that task    *)
(* alone: the emit-time context when there is one, else the task's ctx,    *)
(* else the task's own record, whichever tasks ran before it in the same   *)
(* emit.  The loop assigns the resolved context to the variable that holds *)
(* the emit-time context, so the first task's context serves all.          *)
C15_ContextPerTask ==
    op.kind = "emit" =>
        \A i \in 1..Len(Outer) :
            Outer[i].this = IF InstanceofObject(Arg(op.args, 1)) THEN op.args[1]
                            ELSE OwnContext(TaskById(Outer[i].id))

-----------------------------------------------------------------------------
(* C16: a callback that calls on or emit while a static emit runs does not *)
(* disturb that emit: it invokes the tasks that matched its topic when it  *)
(* started, each at most once and in sorted order, and none that was       *)
(* registered while it ran; the registry keeps the tasks it had, in place. *)
Added == SubSeq(queue', Len(queue) + 1, Len(queue'))

Undisturbed(selected, outer) ==
    /\ IsPrefix(Ids(outer), Ids(selected))
    /\ \A task \in Range(Added) : \A i \in 1..Len(outer) : outer[i].id # task.id
    /\ SubSeq(queue', 1, Len(queue)) = queue

\* the task that RegisterCb registers
DuringEmit(task) == task.cb = Fn(User("cbN"))

(* C16, as claimed: and a task registered during an emit is invoked by the *)
(* next emit of its topic.  An emit that ends before it reaches the task,  *)
(* at a task with stop or a callback that raises, does not invoke it.      *)
C16_NextEmitInvokes ==
    [][op'.kind = "emit" =>
         \A selected \in {Selected(op'.args)} : \A outer \in {OuterOf(log')} :
            /\ Undisturbed(selected, outer)
            /\ \A k \in 1..Len(selected) :
                  DuringEmit(selected[k]) => \E i \in 1..Len(outer) : outer[i].id = selected[k].id]_vars

(* C16, amended: and the next emit of its topic selects the task with the  *)
(* others: it is invoked unless that emit ends before it reaches the task, *)
(* at a task with stop or with an error.                                   *)
C16_NextEmitSelects ==
    [][op'.kind = "emit" =>
         \A selected \in {Selected(op'.args)} : \A outer \in {OuterOf(log')} :
            /\ Undisturbed(selected, outer)
            /\ \A k \in 1..Len(selected) :
                  DuringEmit(selected[k]) =>
                     \/ \E i \in 1..Len(outer) : outer[i].id = selected[k].id
                     \/ err' # ""
                     \/ \E j \in 1..(k - 1) :
                           /\ halts(selected[j])
                           /\ Len(outer) = j /\ outer[j].id = selected[j].id]_vars

\* an emit of 't' that ran the task an earlier emit registered, and whose
\* callback registered one more, which it did not run
C16_Witness ==
    /\ op.kind = "emit" /\ op.args = <<Str("t")>> /\ err = ""
    /\ queue # <<>>
    /\ \E i, j \in 1..Len(log) :
          /\ log[i].cb = RegisterCb("t") /\ log[i].done
          /\ log[j].cb = User("cbN") /\ log[j].done
    /\ DuringEmit(queue[Len(queue)])
    /\ \A i \in 1..Len(log) : log[i].id # queue[Len(queue)].id

-----------------------------------------------------------------------------
(* C17: once a task with sort < 0 and stop is registered on $<name>:filter *)
(* (the hook), every run of the instance's emit emits $<name>:filter with  *)
(* the local collection and the topic, the hook is invoked and the         *)
(* instance's own filter task is not; the local tasks the emit then runs   *)
(* are taken, in sort order, from what the hook returned.                  *)
FilterHooks(n) == {task \in OnFeatureTopic(n, "filter") : task.sort < 0 /\ task.stop # 0}

C17_HookReplacesFilter ==
    \A n \in DOMAIN instances : \A i \in 1..Len(log) :
        (FilterHooks(n) # {} /\ log[i].cb = EmitCb(n)) =>
            /\ \A j \in 1..Len(log) : log[j].id # OwnTask(n, "filter").id
            /\ \E j \in 1..Len(log) :
                  /\ log[j].id \in {task.id : task \in FilterHooks(n)}
                  /\ log[j].args = <<LocalQueue(n), EmitTopic(log[i])>>
                  /\ \A k \in 1..Len(log) :
                        TaskById(log[k].id).topic = Str(FeatureTopic(n, "filter")) => k = j
                  /\ log[j].done =>
                        /\ log[j].ret.t = "array"
                        /\ IsPrefix(Ids(Local(n)), Ids(sort(log[j].ret.v, engine)))
                        /\ log[j].ret.v # <<>> => Local(n) # <<>>

\* an instance with the default filter and a wildcard hook: emit('t*') ran
\* the local task 'tx', the instance's own filter did not run
C17_Witness ==
    /\ op.kind = "call" /\ op.prop = "emit" /\ op.args = <<Str("t*")>>
    /\ ~ SuppliedFilter(op.name)
    /\ FilterHooks(op.name) # {}
    /\ Len(Local(op.name)) = 1
    /\ TaskById(Local(op.name)[1].id).topic = Str("tx")
    /\ \A j \in 1..Len(log) : log[j].cb # FilterCb

-----------------------------------------------------------------------------
(* C18: tasks of one topic that have equal sort values are invoked in the  *)
(* order in which they were registered, however many they are and whatever *)
(* tasks of other sort values are among them.  The comparator answers 1    *)
(* for equal sort values in both directions, which leaves their order to   *)
(* the build's sort.                                                       *)
C18_EqualSortInsertionOrder ==
    op.kind = "emit" =>
        \A i, j \in 1..Len(Outer) :
            (i < j /\ TaskById(Outer[i].id).sort = TaskById(Outer[j].id).sort)
                => Outer[i].id < Outer[j].id

-----------------------------------------------------------------------------
(* C19: a static emit, and an instance emit that uses the default filter,  *)
(* sort the filtered copy and leave the owning collection as it is: after  *)
(* any calls, the tasks of the core registry, and those of the local       *)
(* collection of an instance with the default filter, are in the order in  *)
(* which they were registered, not in sort order.                          *)
RegistrationOrder(tasks) ==
    \A i, j \in 1..Len(tasks) : i < j => tasks[i].id < tasks[j].id

C19_OwnerKeepsRegistrationOrder ==
    /\ RegistrationOrder(queue)
    /\ \A n \in DOMAIN instances :
          (~ SuppliedFilter(n) /\ Unhooked(n, "filter")) => RegistrationOrder(iq[n])

\* an instance emit with the default filter ran the task registered second
\* (sort -1) before the one registered first (sort 0); the local
\* collection has them as they were registered
C19_Witness ==
    /\ op.kind = "call" /\ op.prop = "emit"
    /\ ~ SuppliedFilter(op.name)
    /\ Len(Local(op.name)) = 2
    /\ Local(op.name)[1].id > Local(op.name)[2].id
    /\ Ids(iq[op.name]) = <<Local(op.name)[2].id, Local(op.name)[1].id>>

-----------------------------------------------------------------------------
(* C20: the task collections of instances are isolated.  on through an     *)
(* instance appends the task to that instance's local collection only: the *)
(* core registry and every other instance's collection stay as they are.   *)
(* A static emit invokes tasks of the core registry only; an instance emit *)
(* invokes, besides the tasks of its own feature topics, tasks of its own  *)
(* local collection only.                                                  *)
IdsOf(tasks) == {task.id : task \in tasks}

C20_CollectionsIsolated ==
    /\ [][(op'.kind = "call" /\ op'.prop = "on") =>
             /\ queue' = queue
             /\ \A n \in DOMAIN iq : n # op'.name => iq'[n] = iq[n]
             /\ Len(iq'[op'.name]) = Len(iq[op'.name]) + 1
             /\ SubSeq(iq'[op'.name], 1, Len(iq[op'.name])) = iq[op'.name]
             /\ ret' = TaskV(iq'[op'.name][Len(iq'[op'.name])])
             /\ iq'[op'.name][Len(iq'[op'.name])].topic = op'.args[1]]_vars
    /\ [](op.kind = "emit" =>
             \A i \in 1..Len(log) : log[i].id \in IdsOf(Range(queue)))
    /\ []((op.kind = "call" /\ op.prop = "emit") =>
             \A i \in 1..Len(log) :
                log[i].id \in IdsOf(Range(iq[op.name]))
                                \cup IdsOf(OnFeatureTopic(op.name, "emit"))
                                \cup IdsOf(OnFeatureTopic(op.name, "filter")))

\* v.emit('t', 1) ran a task of v while u and the core registry hold tasks
\* of topic 't' too
C20_Witness ==
    /\ op.kind = "call" /\ op.name = "v" /\ op.prop = "emit"
    /\ "u" \in DOMAIN iq
    /\ Local("v") # <<>>
    /\ \E task \in Range(iq["u"]) : task.topic = Str("t")
    /\ \E task \in Range(queue) : task.topic = Str("t")

====
